---- MODULE Spec2Model ----
(***************************************************************************)
(* A model of app_streamlit_prototype.py: the runs of the dashboard script *)
(* in one session, each from the load of its tables to the end of its tabs.*)
(*                                                                         *)
(* Encoding.  A table is a record [cols, rows]: cols is the set of column  *)
(* names the frame has, rows the sequence of its rows.  A row is a record  *)
(* over every column name the script mentions; the cell of a column that   *)
(* the frame does not have is never read (every read is guarded by cols,   *)
(* or raises KeyError in the model as in the script).  A cell is <<>> for  *)
(* a missing value (NaN / <NA>) and <<v>> for the value v.  YearMonth      *)
(* values are month ordinals (1 = the earliest month), which order as the  *)
(* "YYYY-MM" strings do.  Money and counts are integers.  A Python float   *)
(* is <<>> for nan and a reduced fraction <<n, d>> (d > 0) otherwise.      *)
(***************************************************************************)
EXTENDS Integers, Sequences, FiniteSets, TLC

VARIABLES
    pc,           \* the section of the script that runs next
    df,           \* the primary table (monthly_aggregates.csv)
    year_months,  \* line 289
    flt,          \* the sidebar widgets' values (lines 294-312)
    f,            \* the filtered table (lines 314-325)
    todo,         \* predicates not yet applied by the any-order evaluation
    g,            \* the table of the any-order evaluation
    kpi,          \* the KPI values of lines 357-369
    tab1,         \* the tables of the Executive Overview tab (lines 386-430)
    tab2,         \* the tables of the Revenue Drivers tab (lines 433-468)
    tab3,         \* the metrics and tables of the Promotions tab (lines 471-518)
    err,          \* the exception that ended the run, "" when there is none
    sku_summary,  \* sku_summary.csv (line 525)
    sku_rules,    \* sku_pair_rules_top200.csv (line 526)
    tab5,         \* the widgets and tables of the Products & Basket tab (lines 642-699)
    disk,         \* the CSV files next to the script: a table, or None for no file
    memo,         \* the loads that read_csv_cached has memoised (lines 261-263)
    run,          \* the number of the script run in the session
    hist,         \* what each finished run has shown
    rfm_df,       \* rfm_customer_table.csv (line 523)
    rfm_targets,  \* rfm_target_list.csv (line 524)
    missing_profile,   \* missing_profile_current.csv (line 527)
    outlier_key,       \* outlier_profile_iqr_key_metrics.csv (line 528)
    audit_top_orders,  \* audit_top_orders_by_order_total_gbp.csv (line 529)
    tab4,         \* the widgets and tables of the Customer Intelligence tab (lines 531-639)
    tab6          \* the views of the Data Quality tab (lines 702-718)

vars == <<pc, df, year_months, flt, f, todo, g, kpi, tab1, tab2, tab3, err,
          sku_summary, sku_rules, tab5, disk, memo, run, hist, rfm_df, rfm_targets,
          missing_profile, outlier_key, audit_top_orders, tab4, tab6>>
basket == <<sku_summary, sku_rules, tab5>>
files == <<disk, memo, run, hist>>
optional == <<rfm_df, rfm_targets, missing_profile, outlier_key, audit_top_orders>>
session == <<files, optional, tab4, tab6>>
out == <<kpi, tab1, tab2, tab3, err, basket, session>>
primary == <<df, year_months, flt, f, todo, g, kpi, tab1, tab2, tab3>>

\* ---------------------------------------------------------------- bounds
MaxRows == 2
MaxMonth == 2
MaxFilterCols == 2
MaxKpiCols == 2
MaxSku == 2
MaxSupport == 2
MaxRules == 2
MaxRuns == 2

\* ----------------------------------------------------------------- cells
Missing == <<>>
Val(v) == <<v>>
notna(c) == Len(c) > 0

\* The value a widget or a derived table holds before its section has run.
None == <<>>

\* --------------------------------------------------------------- columns
CategoricalCols == <<"Company", "Brands", "shop", "shipping_country", "campaign_type_clean">>

FilterCols == {"YearMonth", "Company", "Brands", "shop", "shipping_country",
               "campaign_type_clean", "has_coupon"}

MeasureCols == {"orders", "net_revenue_gbp", "refund_gbp", "order_total_gbp",
                "refund_rate", "aov_gbp", "avg_discount_rate"}

AllCols == FilterCols \cup MeasureCols

\* The values a cell of each kind of column takes in the tables of the model.
Months == {Val(m) : m \in 1..MaxMonth}
Domains ==
    [month |-> {Missing} \cup Months,
     category |-> {Missing, Val("a"), Val("b")},
     campaign |-> {Missing, Val("promo"), Val(" promo"), Val("no coupon")},
     flag |-> {Missing, Val(TRUE), Val(FALSE)},
     measure |-> {Missing, Val(0), Val(1)}]

\* Two values a column: what the any-order evaluation is explored over.
LeanDomains ==
    [month |-> Months,
     category |-> {Val("a"), Val("b")},
     campaign |-> {Val("promo"), Val("no coupon")},
     flag |-> {Val(TRUE), Val(FALSE)},
     measure |-> {Missing, Val(1)}]

ColDomain(c, D) ==
    CASE c = "YearMonth" -> D.month
      [] c = "campaign_type_clean" -> D.campaign
      [] c = "has_coupon" -> D.flag
      [] c \in MeasureCols -> D.measure
      [] OTHER -> D.category

Dom(c, cols, D) == IF c \in cols THEN ColDomain(c, D) ELSE {Missing}

\* The rows a frame with the columns cols can hold.
Rows(cols, D) ==
    [YearMonth : Dom("YearMonth", cols, D), Company : Dom("Company", cols, D),
     Brands : Dom("Brands", cols, D), shop : Dom("shop", cols, D),
     shipping_country : Dom("shipping_country", cols, D),
     campaign_type_clean : Dom("campaign_type_clean", cols, D),
     has_coupon : Dom("has_coupon", cols, D), orders : Dom("orders", cols, D),
     net_revenue_gbp : Dom("net_revenue_gbp", cols, D),
     refund_gbp : Dom("refund_gbp", cols, D),
     order_total_gbp : Dom("order_total_gbp", cols, D),
     refund_rate : Dom("refund_rate", cols, D), aov_gbp : Dom("aov_gbp", cols, D),
     avg_discount_rate : Dom("avg_discount_rate", cols, D)]

Tables(cols, D) ==
    {[cols |-> cols, rows |-> rs] :
        rs \in UNION {[1..n -> Rows(cols, D)] : n \in 0..MaxRows}}

\* ------------------------------------------------------- sequence helpers
RECURSIVE SortedSeq(_)
SortedSeq(S) ==
    IF S = {} THEN <<>>
    ELSE LET m == CHOOSE x \in S : \A y \in S : x <= y
         IN <<m>> \o SortedSeq(S \ {m})

Column(t, col) == [i \in 1..Len(t.rows) |-> t.rows[i][col]]

\* Series.dropna().unique(): the set of the column's non-missing values.
Unique(t, col) == {t.rows[i][col][1] : i \in {j \in 1..Len(t.rows) : notna(t.rows[j][col])}}

\* ------------------------------------------------ load and normalisation
\* Series.str.strip() on the strings of the model.
StrStrip(s) == IF s = " promo" THEN "promo" ELSE s

\* Series.str.replace(r"(?i)^no coupon$", "No campaign", regex=True).
ReplaceNoCoupon(s) == IF s \in {"no coupon", "No coupon", "NO COUPON"} THEN "No campaign" ELSE s

CleanCell(c) == IF notna(c) THEN Val(ReplaceNoCoupon(StrStrip(c[1]))) ELSE Missing

\* Lines 274-280: the campaign-type column is rewritten when the frame has it.
CleanCampaign(t) ==
    IF "campaign_type_clean" \in t.cols
    THEN [t EXCEPT !.rows = [i \in 1..Len(t.rows) |->
             [t.rows[i] EXCEPT !.campaign_type_clean = CleanCell(@)]]]
    ELSE t

\* ---------------------------------------------------------------- sidebar
\* Line 289.
YearMonths(t) == IF "YearMonth" \in t.cols THEN SortedSeq(Unique(t, "YearMonth")) ELSE <<>>

\* The test `if year_months is None`, which no list satisfies.
NoYearMonthsIsNone(ym) == FALSE

\* Line 290: `if not year_months`.
NoYearMonths(ym) == ym = <<>>

\* Lines 301-305: the options of a multiselect; the widget returns any subset.
Options(t, col) == IF col \in t.cols THEN Unique(t, col) ELSE {}

\* Line 312: the selectbox offers "All", True, False.
CouponChoices == {"All", "True", "False"}
ChoiceBool(choice) == choice = "True"

\* The selection the filter loop of lines 315-321 pairs with each column.
Sel(w, col) ==
    CASE col = "Company" -> w.company
      [] col = "Brands" -> w.brand
      [] col = "shop" -> w.shop
      [] col = "shipping_country" -> w.country
      [] col = "campaign_type_clean" -> w.campaign

\* ----------------------------------------------------------------- filter
\* Line 314: df[(df["YearMonth"] >= ym_from) & (df["YearMonth"] <= ym_to)];
\* a comparison with a missing value is False.
InRange(r, lo, hi) == notna(r.YearMonth) /\ r.YearMonth[1] >= lo /\ r.YearMonth[1] <= hi

RangeFilter(t, lo, hi) == [t EXCEPT !.rows = SelectSeq(t.rows, LAMBDA r : InRange(r, lo, hi))]

\* Series.isin(sel): a missing value is in no selection.
IsIn(r, col, sel) == notna(r[col]) /\ r[col][1] \in sel

\* The mask taken from the unfiltered frame: f = df[df[col].isin(sel)].
IsinFilterOfDf(t, col, sel) ==
    IF sel # {} /\ col \in t.cols
    THEN [t EXCEPT !.rows = SelectSeq(df.rows, LAMBDA r : IsIn(r, col, sel))]
    ELSE t

\* The guard without the test of the selection: `if col in f.columns`.
IsinFilterUnguarded(t, col, sel) ==
    IF col \in t.cols
    THEN [t EXCEPT !.rows = SelectSeq(t.rows, LAMBDA r : IsIn(r, col, sel))]
    ELSE t

\* Lines 322-323.
IsinFilter(t, col, sel) ==
    IF sel # {} /\ col \in t.cols
    THEN [t EXCEPT !.rows = SelectSeq(t.rows, LAMBDA r : IsIn(r, col, sel))]
    ELSE t

\* Lines 324-325.
CouponFilter(t, choice) ==
    IF choice # "All" /\ "has_coupon" \in t.cols
    THEN [t EXCEPT !.rows = SelectSeq(t.rows, LAMBDA r : r.has_coupon = Val(ChoiceBool(choice)))]
    ELSE t

\* The predicates of the filter pipeline, in the order of lines 314-325.
Predicates == <<"range">> \o CategoricalCols \o <<"has_coupon">>

ApplyPredicate(p, t, w) ==
    CASE p = "range" -> RangeFilter(t, w.ym_from, w.ym_to)
      [] p = "has_coupon" -> CouponFilter(t, w.has_coupon)
      [] OTHER -> IsinFilter(t, p, Sel(w, p))

RECURSIVE ApplyInOrder(_, _, _)
ApplyInOrder(order, t, w) ==
    IF order = <<>> THEN t
    ELSE ApplyInOrder(Tail(order), ApplyPredicate(Head(order), t, w), w)

\* The pipeline that filters what the run before has left in f.
apply_filters_of_f(t, w) == ApplyInOrder(Predicates, IF f # None THEN f ELSE t, w)

\* Lines 314-325.
apply_filters(t, w) == ApplyInOrder(Predicates, t, w)

\* ----------------------------------------------------------------- floats
NaN == <<>>
isnan(x) == Len(x) = 0
Abs(i) == IF i < 0 THEN -i ELSE i
Min(a, b) == IF a <= b THEN a ELSE b

RECURSIVE GCD(_, _)
GCD(a, b) == IF b = 0 THEN a ELSE GCD(b, a % b)

\* The quotient n / d (d # 0) as a reduced fraction with a positive denominator.
Frac(n, d) ==
    LET num == IF d < 0 THEN -n ELSE n
        den == Abs(d)
        k == GCD(Abs(num), den)
    IN  <<(IF num < 0 THEN -1 ELSE 1) * (Abs(num) \div k), den \div k>>

\* float(i) of an integer i.
Float(i) == <<i, 1>>

\* a / b of two floats, b nonzero: nan when either is nan.
FloatDiv(a, b) == IF isnan(a) \/ isnan(b) THEN NaN ELSE Frac(a[1] * b[2], a[2] * b[1])

\* a >= b of two floats that are not nan.
FloatGE(a, b) == a[1] * b[2] >= b[1] * a[2]

\* bool(x) of a float: zero is false, nan is true.
Truthy(x) == isnan(x) \/ x[1] # 0

\* np.nansum: the sum of the values that are not missing, 0 when there is none.
RECURSIVE nansum(_)
nansum(cells) ==
    IF cells = <<>> THEN 0
    ELSE (IF notna(Head(cells)) THEN Head(cells)[1] ELSE 0) + nansum(Tail(cells))

Count(cells) == Len(SelectSeq(cells, notna))

\* np.nanmean, and the groupby "mean": the mean of the values that are not
\* missing, nan when there is none.
nanmean(cells) == IF Count(cells) = 0 THEN NaN ELSE Frac(nansum(cells), Count(cells))

CellsOf(rows, col) == [i \in 1..Len(rows) |-> rows[i][col]]

\* f.loc[f["has_coupon"] == flag, col]
CouponCells(rows, flag, col) == CellsOf(SelectSeq(rows, LAMBDA r : r.has_coupon = Val(flag)), col)

\* ------------------------------------------------------------------- KPIs
\* Lines 349-352.
kpi_sum(t, col) == IF col \notin t.cols THEN NaN ELSE Float(nansum(CellsOf(t.rows, col)))

\* The division that answers 0.0 for a zero denominator.
kpi_div_zero(n, d) == IF Truthy(d) THEN FloatDiv(n, d) ELSE Float(0)

\* Lines 354-355: float(n / d) if d else np.nan.
kpi_div(n, d) == IF Truthy(d) THEN FloatDiv(n, d) ELSE NaN

\* Line 357.
Orders(t) == IF "orders" \in t.cols THEN nansum(CellsOf(t.rows, "orders")) ELSE 0

\* Lines 364-368.
CouponOrders(t) ==
    IF "has_coupon" \in t.cols /\ "orders" \in t.cols
    THEN nansum(CouponCells(t.rows, TRUE, "orders"))
    ELSE 0

\* Lines 357-369.
Kpis(t) ==
    LET orders == Orders(t)
        net_rev == kpi_sum(t, "net_revenue_gbp")
        refund == kpi_sum(t, "refund_gbp")
        order_total == kpi_sum(t, "order_total_gbp")
        coupon_orders == CouponOrders(t)
    IN  [orders |-> orders, net_rev |-> net_rev, aov |-> kpi_div(net_rev, Float(orders)),
         refund |-> refund, order_total |-> order_total,
         refund_rate |-> kpi_div(refund, order_total),
         coupon_orders |-> coupon_orders,
         coupon_usage |-> kpi_div(Float(coupon_orders), Float(orders))]

\* ----------------------------------------------------------- aggregations
\* groupby(by): the keys are the values of the column that are not missing.
Keys(t, by) == Unique(t, by)
GroupCells(t, by, k, col) == CellsOf(SelectSeq(t.rows, LAMBDA r : r[by] = Val(k)), col)

\* agg(..., "sum"): missing values are skipped, and a group without a value sums to 0.
GroupSum(t, by, k, col) == Float(nansum(GroupCells(t, by, k, col)))

\* agg(..., "mean").
GroupMean(t, by, k, col) == nanmean(GroupCells(t, by, k, col))

RECURSIVE Perms(_)
Perms(S) ==
    IF S = {} THEN {<<>>}
    ELSE UNION {{<<x>> \o p : p \in Perms(S \ {x})} : x \in S}

\* sort_values(measure, ascending=False) with the default kind, quicksort,
\* which is not stable: the rows in descending order of the measure, rows of
\* equal measure in any order.
SortValuesDesc(S, measure) ==
    {s \in Perms(S) : \A i \in 1..Len(s) - 1 : FloatGE(s[i][measure], s[i + 1][measure])}

\* DataFrame.head(n)
head(s, n) == SubSeq(s, 1, Min(n, Len(s)))

\* Lines 412, 425, 454 and 495.
TopBrands == 10
TopCountries == 15
TopCampaigns == 15

\* f.groupby(by, as_index=False).agg(net_revenue=("net_revenue_gbp", "sum")):
\* one row a group.
NetRevenueBy(t, by) ==
    {[key |-> k, net_revenue |-> GroupSum(t, by, k, "net_revenue_gbp")] : k \in Keys(t, by)}

\* ...sort_values("net_revenue", ascending=False).head(n): the tables it can yield.
TopBy(t, by, n) == {head(s, n) : s \in SortValuesDesc(NetRevenueBy(t, by), "net_revenue")}

Shown(rows) == [shown |-> TRUE, rows |-> rows]
Skipped == [shown |-> FALSE, rows |-> <<>>]

\* Lines 397-401.
by_ym(t) ==
    LET ks == SortedSeq(Keys(t, "YearMonth"))
    IN  [i \in 1..Len(ks) |->
            [YearMonth |-> ks[i],
             net_revenue |-> GroupSum(t, "YearMonth", ks[i], "net_revenue_gbp"),
             orders |-> GroupSum(t, "YearMonth", ks[i], "orders")]]

\* Lines 437-444: one row a shop.
PivotRows(t) ==
    {[key |-> k,
      net_revenue |-> GroupSum(t, "shop", k, "net_revenue_gbp"),
      orders |-> GroupSum(t, "shop", k, "orders"),
      aov |-> IF "aov_gbp" \in t.cols THEN GroupMean(t, "shop", k, "aov_gbp")
              ELSE GroupSum(t, "shop", k, "orders"),
      refund_rate |-> IF "refund_rate" \in t.cols THEN GroupMean(t, "shop", k, "refund_rate")
                      ELSE GroupSum(t, "shop", k, "orders")] : k \in Keys(t, "shop")}

\* Lines 461-465.
by_ym2(t) ==
    LET ks == SortedSeq(Keys(t, "YearMonth"))
    IN  [i \in 1..Len(ks) |->
            [YearMonth |-> ks[i], refund_rate |-> GroupMean(t, "YearMonth", ks[i], "refund_rate")]]

\* Lines 502-515: orders and coupon orders a month, and their ratio, which is
\* nan for a month without orders (replace(0, np.nan)).
usage(t) ==
    LET ks == SortedSeq(Keys(t, "YearMonth"))
    IN  [i \in 1..Len(ks) |->
            LET rows == SelectSeq(t.rows, LAMBDA r : r.YearMonth = Val(ks[i]))
                o == nansum(CellsOf(rows, "orders"))
                c == nansum(CouponCells(rows, TRUE, "orders"))
            IN  [YearMonth |-> ks[i], orders |-> o, coupon_orders |-> c,
                 coupon_usage |-> IF o = 0 THEN NaN ELSE Frac(c, o)]]

\* ------------------------------------------------------ products & basket
\* Support is counted in steps of the support slider (0.0001, line 666),
\* confidence in steps of the confidence slider (0.05, line 670) and lift in
\* steps of the lift slider (1.0, line 672); SKUs are numbered.  A slider value
\* is a float.
RuleCols == {"antecedent", "consequent", "support", "confidence", "lift", "pair_order_count"}

\* Line 670: the confidence slider runs from 0.0 to 1.0 in steps of 0.05 and
\* starts at 0.2; line 672: the lift slider starts at 5.0.
ConfSteps == 20
DefaultConf == 4
DefaultLift == 5
\* Line 698.
DrillLimit == 50
\* Line 648: st.slider("Top N SKUs", 10, 50, 20, 5).
TopNMin == 10
TopNMax == 50
TopNStep == 5

\* The values of the confidence and lift sliders that the user sets.
ConfInputs == {0, DefaultConf, DefaultConf + 1, ConfSteps}
LiftInputs == {0, DefaultLift, DefaultLift + 1}

TopNDefault == 20
TopNChoices == {n \in TopNMin..TopNMax : (n - TopNMin) % TopNStep = 0}
\* The values of the Top N slider that the user sets.
TopNInputs == {TopNMin, TopNDefault} \cap TopNChoices

MaxOf(S) == CHOOSE x \in S : \A y \in S : y <= x

Values(rows, col) == {rows[i][col] : i \in 1..Len(rows)}

\* np.quantile(x, 0.5): the middle value, or the mean of the two middle values.
Median(rows, col) ==
    LET n == Len(rows)
        below(v) == Cardinality({i \in 1..n : rows[i][col] < v})
        upto(v) == Cardinality({i \in 1..n : rows[i][col] <= v})
        \* the k-th smallest value
        kth(k) == CHOOSE v \in Values(rows, col) : below(v) < k /\ k <= upto(v)
    IN  IF n % 2 = 1 THEN Float(kth((n + 1) \div 2))
        ELSE Frac(kth(n \div 2) + kth(n \div 2 + 1), 2)

\* The comparison with a strict bound on lift: lift > min_lift.
MeetsStrictLift(r, min_support, min_conf, min_lift) ==
    /\ FloatGE(Float(r.support), min_support)
    /\ FloatGE(Float(r.confidence), min_conf)
    /\ ~FloatGE(min_lift, Float(r.lift))

\* Lines 675-677.
Meets(r, min_support, min_conf, min_lift) ==
    /\ FloatGE(Float(r.support), min_support)
    /\ FloatGE(Float(r.confidence), min_conf)
    /\ FloatGE(Float(r.lift), min_lift)

\* Lines 674-678.
threshold_rules(rows, min_support, min_conf, min_lift) ==
    SelectSeq(rows, LAMBDA r : Meets(r, min_support, min_conf, min_lift))

\* Line 694: the SKUs of the unfiltered rule table.
SkuOptions(rows) == Values(rows, "antecedent") \cup Values(rows, "consequent")

\* Line 697.
related(rows, x) == SelectSeq(rows, LAMBDA r : r.antecedent = x \/ r.consequent = x)

\* (lift, confidence, support) of a before that of b in descending order.
RuleKeyGreater(a, b) ==
    \/ a.lift > b.lift
    \/ a.lift = b.lift /\ a.confidence > b.confidence
    \/ a.lift = b.lift /\ a.confidence = b.confidence /\ a.support > b.support

RuleKeyEqual(a, b) == a.lift = b.lift /\ a.confidence = b.confidence /\ a.support = b.support

\* sort_values(["lift", "confidence", "support"], ascending=False): a sort on
\* several keys is a lexsort, which is stable.
SortRules(rows) ==
    LET p == CHOOSE q \in Perms(1..Len(rows)) :
                \A i, j \in 1..Len(rows) :
                   i < j => \/ RuleKeyGreater(rows[q[i]], rows[q[j]])
                            \/ RuleKeyEqual(rows[q[i]], rows[q[j]]) /\ q[i] < q[j]
    IN  [i \in 1..Len(rows) |-> rows[p[i]]]

\* Lines 697-698.
drill_down(rows, x) == head(SortRules(related(rows, x)), DrillLimit)

\* sku_summary.sort_values("revenue_alloc_gbp", ascending=False): quicksort,
\* rows of equal revenue in any order.
SortSummaryDesc(rows) ==
    {[i \in 1..Len(rows) |-> rows[q[i]]] : q \in
        {q \in Perms(1..Len(rows)) :
            \A i \in 1..Len(rows) - 1 :
               rows[q[i]].revenue_alloc_gbp >= rows[q[i + 1]].revenue_alloc_gbp}}

\* ------------------------------------------------------------ the loader
\* The files of the script, each under the name of the variable it is
\* loaded into: monthly_aggregates.csv is df.
OptionalNames == {"rfm_df", "rfm_targets", "sku_summary", "sku_rules", "missing_profile",
                  "outlier_key", "audit_top_orders"}
FileNames == {"df"} \cup OptionalNames
NoFiles == [n \in FileNames |-> None]

\* Lines 261-263: st.cache_data memoises the load under the file's name, and
\* hands out a copy of the memoised table from then on, whatever the file
\* holds by then.
read_csv_cached(m, d, name) == IF m[name] # None THEN m[name] ELSE d[name]

\* The memoised loads after read_csv_cached(name).
Memoised(m, d, name) == IF m[name] # None THEN m ELSE [m EXCEPT ![name] = d[name]]

\* Lines 265-269.
load_optional(m, d, name) == IF d[name] = None THEN None ELSE read_csv_cached(m, d, name)

\* ------------------------------------------------- Customer Intelligence
RfmCols == {"Customer_ID", "RFM_Segment", "kmeans_cluster", "recency_days", "monetary",
            "frequency"}

\* Lines 573 and 588: Series.nunique() leaves missing values out.
NUnique(rows, col) == Cardinality({rows[i][col] : i \in {j \in 1..Len(rows) : notna(rows[j][col])}})

\* Line 561: np.nanmin and np.nanmax of recency_days.
NanMin(t, col) == CHOOSE x \in Unique(t, col) : \A y \in Unique(t, col) : x <= y
NanMax(t, col) == CHOOSE x \in Unique(t, col) : \A y \in Unique(t, col) : y <= x

\* Line 560: the column is there and has a value.
HasRecency(t) == "recency_days" \in t.cols /\ Unique(t, "recency_days") # {}

\* The ranges that the recency slider of line 562 can hold; None without slider.
RecencyRanges(t) ==
    IF HasRecency(t)
    THEN {<<lo, hi>> : lo \in NanMin(t, "recency_days")..NanMax(t, "recency_days"),
                       hi \in NanMin(t, "recency_days")..NanMax(t, "recency_days")}
         \ {<<lo, hi>> \in (0..NanMax(t, "recency_days")) \X (0..NanMax(t, "recency_days")) : lo > hi}
    ELSE {None}

\* Line 570: a comparison with a missing value is false.
InRecency(r, rng) ==
    notna(r.recency_days) /\ r.recency_days[1] >= rng[1] /\ r.recency_days[1] <= rng[2]

\* Lines 564-570: rf.
rfm_filter(t, seg_sel, clu_sel, rec_rng) ==
    LET a == IF seg_sel # {} /\ "RFM_Segment" \in t.cols
             THEN SelectSeq(t.rows, LAMBDA r : IsIn(r, "RFM_Segment", seg_sel)) ELSE t.rows
        b == IF clu_sel # {} /\ "kmeans_cluster" \in t.cols
             THEN SelectSeq(a, LAMBDA r : IsIn(r, "kmeans_cluster", clu_sel)) ELSE a
        c == IF rec_rng # None /\ "recency_days" \in t.cols
             THEN SelectSeq(b, LAMBDA r : InRecency(r, rec_rng)) ELSE b
    IN  [t EXCEPT !.rows = c]

\* Lines 573-576: the four metrics.
RfmMetrics(rf) ==
    [n_cust |-> IF "Customer_ID" \in rf.cols THEN NUnique(rf.rows, "Customer_ID") ELSE Len(rf.rows),
     total_m |-> IF "monetary" \in rf.cols THEN Float(nansum(CellsOf(rf.rows, "monetary"))) ELSE NaN,
     avg_m |-> IF "monetary" \in rf.cols THEN nanmean(CellsOf(rf.rows, "monetary")) ELSE NaN,
     avg_f |-> IF "frequency" \in rf.cols THEN nanmean(CellsOf(rf.rows, "frequency")) ELSE NaN]

\* Lines 585-590: one row a segment, before the sort.
SegSum(rf) ==
    {[key |-> k,
      customers |-> NUnique(SelectSeq(rf.rows, LAMBDA r : r.RFM_Segment = Val(k)), "Customer_ID"),
      monetary |-> GroupSum(rf, "RFM_Segment", k, "monetary")] : k \in Keys(rf, "RFM_Segment")}

\* Line 633.
TargetLimit == 200
\* Line 706.
TopMissing == 20
\* Line 719.
AuditLimit == 200

NoTab4 == [notices |-> {}, seg_sel |-> {}, clu_sel |-> {}, rec_rng |-> None, rf |-> None,
           metrics |-> None, seg_sum |-> Skipped, seg_cluster |-> "none", scatter |-> FALSE,
           target_list |-> Skipped]
NoTab6 == [notices |-> {}, top_m |-> Skipped, out |-> Skipped, audit |-> Skipped]

\* The rows of a table in descending order of a column of whole numbers,
\* rows of equal value in any order (sort_values with quicksort).
SortRowsDesc(rows, col) ==
    {[i \in 1..Len(rows) |-> rows[q[i]]] : q \in
        {q \in Perms(1..Len(rows)) :
            \A i \in 1..Len(rows) - 1 : rows[q[i]][col] >= rows[q[i + 1]][col]}}

\* ---------------------------------------------------------------- actions
\* Lines 274-280.
Normalise ==
    /\ pc = "normalise"
    /\ df' = CleanCampaign(df)
    /\ pc' = "check"
    /\ UNCHANGED <<year_months, flt, f, todo, g, out>>

\* Lines 289-292: st.stop() ends the run when there is no YearMonth value.
CheckYearMonth ==
    /\ pc = "check"
    /\ year_months' = YearMonths(df)
    /\ pc' = IF NoYearMonths(year_months') THEN "stopped" ELSE "sidebar"
    /\ UNCHANGED <<df, flt, f, todo, g, out>>

\* Lines 294-312: the user's choice in every widget.
Sidebar ==
    /\ pc = "sidebar"
    /\ \E lo \in 1..Len(year_months), hi \in 1..Len(year_months) :
       \E co \in SUBSET Options(df, "Company"), br \in SUBSET Options(df, "Brands"),
          sh \in SUBSET Options(df, "shop"), cn \in SUBSET Options(df, "shipping_country"),
          ca \in SUBSET Options(df, "campaign_type_clean"), hc \in CouponChoices :
          /\ lo <= hi
          /\ flt' = [ym_from |-> year_months[lo], ym_to |-> year_months[hi],
                     company |-> co, brand |-> br, shop |-> sh, country |-> cn,
                     campaign |-> ca, has_coupon |-> hc]
    /\ pc' = "filter"
    /\ UNCHANGED <<df, year_months, f, todo, g, out>>

\* The filter that writes its result back into df: df = df[...].
FilterInPlace ==
    /\ pc = "filter"
    /\ df' = apply_filters(df, flt)
    /\ f' = df'
    /\ pc' = "kpi"
    /\ UNCHANGED <<year_months, flt, todo, g, out>>

\* Lines 314-325.
Filter ==
    /\ pc = "filter"
    /\ f' = apply_filters(df, flt)
    /\ pc' = "kpi"
    /\ UNCHANGED <<df, year_months, flt, todo, g, out>>

\* The same predicates applied to df one at a time in an order chosen freely.
StartAnyOrder ==
    /\ pc = "kpi"
    /\ pc' = "anyorder"
    /\ todo' = {Predicates[i] : i \in 1..Len(Predicates)}
    /\ g' = df
    /\ UNCHANGED <<df, year_months, flt, f, out>>

ApplyAny ==
    /\ pc = "anyorder"
    /\ \E p \in todo :
          /\ g' = ApplyPredicate(p, g, flt)
          /\ todo' = todo \ {p}
    /\ UNCHANGED <<pc, df, year_months, flt, f, out>>

\* KeyError for a column of f that an aggregation names and f does not have,
\* and KeyError for the coupon_orders column of the usage table.
ColumnKeyError == "KeyError: a column of f"
UsageKeyError == "KeyError: 'coupon_orders'"

\* Lines 357-369.
Kpi ==
    /\ pc = "kpi"
    /\ kpi' = Kpis(f)
    /\ pc' = "tab1"
    /\ UNCHANGED <<df, year_months, flt, f, todo, g, tab1, tab2, tab3, err, basket, session>>

\* Lines 386-430.  The aggregation of lines 397-401 names net_revenue_gbp and
\* orders without a test of the columns: pandas raises KeyError for a column
\* the frame does not have.
Tab1 ==
    /\ pc = "tab1"
    /\ IF {"net_revenue_gbp", "orders"} \subseteq f.cols
       THEN /\ \E tb \in (IF "Brands" \in f.cols
                          THEN {Shown(s) : s \in TopBy(f, "Brands", TopBrands)}
                          ELSE {Skipped}),
                  tc \in (IF "shipping_country" \in f.cols
                          THEN {Shown(s) : s \in TopBy(f, "shipping_country", TopCountries)}
                          ELSE {Skipped}) :
                  tab1' = [by_ym |-> by_ym(f), top_brand |-> tb, top_country |-> tc]
            /\ pc' = "tab2"
            /\ err' = err
       ELSE /\ pc' = "error"
            /\ err' = ColumnKeyError
            /\ tab1' = tab1
    /\ UNCHANGED <<df, year_months, flt, f, todo, g, kpi, tab2, tab3, basket, session>>

\* Lines 433-468.
Tab2 ==
    /\ pc = "tab2"
    /\ IF ("shop" \in f.cols => {"net_revenue_gbp", "orders"} \subseteq f.cols)
          /\ ("campaign_type_clean" \in f.cols => "net_revenue_gbp" \in f.cols)
       THEN /\ \E pv \in (IF "shop" \in f.cols
                          THEN {Shown(s) : s \in SortValuesDesc(PivotRows(f), "net_revenue")}
                          ELSE {Skipped}),
                  bc \in (IF "campaign_type_clean" \in f.cols
                          THEN {Shown(s) : s \in TopBy(f, "campaign_type_clean", TopCampaigns)}
                          ELSE {Skipped}) :
                  tab2' = [pivot |-> pv, by_campaign |-> bc,
                           by_ym2 |-> IF "refund_rate" \in f.cols THEN Shown(by_ym2(f)) ELSE Skipped]
            /\ pc' = "tab3"
            /\ err' = err
       ELSE /\ pc' = "error"
            /\ err' = ColumnKeyError
            /\ tab2' = tab2
    /\ UNCHANGED <<df, year_months, flt, f, todo, g, kpi, tab1, tab3, basket, session>>

\* Lines 471-488: the three metrics of the Promotions tab.
Tab3 ==
    /\ pc = "tab3"
    /\ IF "has_coupon" \in f.cols => "net_revenue_gbp" \in f.cols
       THEN /\ tab3' =
                 [net_coupon |-> IF "has_coupon" \in f.cols
                                 THEN Float(nansum(CouponCells(f.rows, TRUE, "net_revenue_gbp")))
                                 ELSE NaN,
                  net_nocoupon |-> IF "has_coupon" \in f.cols
                                   THEN Float(nansum(CouponCells(f.rows, FALSE, "net_revenue_gbp")))
                                   ELSE NaN,
                  wdisc |-> IF "avg_discount_rate" \in f.cols
                            THEN nanmean(CellsOf(f.rows, "avg_discount_rate"))
                            ELSE NaN,
                  top_campaign |-> Skipped, usage |-> Skipped]
            /\ pc' = "tab3_charts"
            /\ err' = err
       ELSE /\ pc' = "error"
            /\ err' = ColumnKeyError
            /\ tab3' = tab3
    /\ UNCHANGED <<df, year_months, flt, f, todo, g, kpi, tab1, tab2, basket, session>>

\* Lines 490-518.  The top-campaign chart of lines 490-499 is drawn first,
\* also for a frame without rows.  groupby(...).apply(...) over a frame
\* without rows calls the lambda for no group and answers an empty frame with
\* the columns of f, which has no coupon_orders column: line 515 raises
\* KeyError, after the top-campaign chart and before the usage chart.
Tab3Charts ==
    /\ pc = "tab3_charts"
    /\ \E tc \in (IF "campaign_type_clean" \in f.cols
                  THEN {Shown(s) : s \in TopBy(f, "campaign_type_clean", TopCampaigns)}
                  ELSE {Skipped}) :
          IF {"has_coupon", "orders"} \subseteq f.cols => f.rows # <<>>
          THEN /\ tab3' = [tab3 EXCEPT !.top_campaign = tc,
                                       !.usage = IF {"has_coupon", "orders"} \subseteq f.cols
                                                 THEN Shown(usage(f)) ELSE Skipped]
               /\ pc' = "optional"
               /\ err' = err
          ELSE /\ tab3' = [tab3 EXCEPT !.top_campaign = tc]
               /\ pc' = "error"
               /\ err' = UsageKeyError
    /\ UNCHANGED <<df, year_months, flt, f, todo, g, kpi, tab1, tab2, basket, session>>

\* Tab 5 before any of its widgets and tables is there.  notices holds the
\* files that a st.warning of the tab reports as missing (line 646 names
\* sku_summary.csv and sku_pair_rules_top200.csv in one message).
NoTab5 == [notices |-> {}, topn |-> 0, top_skus |-> Skipped, sliders |-> None,
           min_support |-> NaN, min_conf |-> NaN, min_lift |-> NaN,
           rr |-> <<>>, sku_pick |-> 0, rel |-> <<>>]

\* Lines 645-655: the warning when one of the two files is missing, else the
\* Top N slider and the ranking of the SKUs.
TopSkus ==
    /\ pc = "tab5"
    /\ IF sku_summary = None \/ sku_rules = None
       THEN /\ tab5' = [NoTab5 EXCEPT !.notices = {"sku_summary", "sku_rules"}]
            /\ pc' = "tab6"
       ELSE /\ \E n \in TopNInputs :
               \E ts \in (IF {"sku", "revenue_alloc_gbp"} \subseteq sku_summary.cols
                          THEN {Shown(head(s, n)) : s \in SortSummaryDesc(sku_summary.rows)}
                          ELSE {Skipped}) :
                  tab5' = [NoTab5 EXCEPT !.topn = n, !.top_skus = ts]
            /\ pc' = "sliders"
    /\ UNCHANGED <<primary, err, sku_summary, sku_rules, session>>

\* The arguments of the three st.slider calls of lines 661-672: min_value,
\* max_value and the default value.
SupportSlider(rows) ==
    [min_value |-> Float(0), max_value |-> Float(MaxOf(Values(rows, "support"))),
     value |-> Median(rows, "support")]
ConfSlider == [min_value |-> Float(0), max_value |-> Float(ConfSteps), value |-> Float(DefaultConf)]
LiftSlider(rows) ==
    [min_value |-> Float(0), max_value |-> Float(MaxOf(Values(rows, "lift"))),
     value |-> Float(DefaultLift)]

InBounds(sl) == FloatGE(sl.value, sl.min_value) /\ FloatGE(sl.max_value, sl.value)

\* The largest whole value that a slider offers when its range is widened to
\* hold its default value.
SliderTop(sl) == IF FloatGE(sl.max_value, sl.value) THEN sl.max_value[1] ELSE sl.value[1]

SliderError == "StreamlitAPIException: slider value out of range"

\* Lines 657-672: the three threshold sliders, shown when the rule table has
\* the six columns.  The support slider starts at the median, the lift slider
\* at 5.0.  For a default above max_value st.slider, by its version, either
\* raises StreamlitAPIException or widens its range to hold the default.
Sliders ==
    /\ pc = "sliders"
    /\ IF RuleCols \subseteq sku_rules.cols
       THEN LET ss == SupportSlider(sku_rules.rows)
                ls == LiftSlider(sku_rules.rows)
                sliders == [support |-> ss, conf |-> ConfSlider, lift |-> ls]
            IN  \/ /\ \E ms \in {ss.value} \cup {Float(k) : k \in 0..SliderTop(ss)},
                          mc \in {Float(k) : k \in ConfInputs},
                          ml \in {Float(k) : k \in LiftInputs \cap 0..SliderTop(ls)} :
                          tab5' = [tab5 EXCEPT !.min_support = ms, !.min_conf = mc,
                                               !.min_lift = ml, !.sliders = sliders]
                   /\ pc' = "threshold"
                   /\ err' = err
                \/ /\ ~InBounds(ls)
                   /\ tab5' = [tab5 EXCEPT !.sliders = sliders]
                   /\ pc' = "error"
                   /\ err' = SliderError
       ELSE /\ tab5' = tab5
            /\ pc' = "tab6"
            /\ err' = err
    /\ UNCHANGED <<primary, sku_summary, sku_rules, session>>

\* Lines 674-678.
Threshold ==
    /\ pc = "threshold"
    /\ tab5' = [tab5 EXCEPT !.rr = threshold_rules(sku_rules.rows, tab5.min_support,
                                                   tab5.min_conf, tab5.min_lift)]
    /\ pc' = "pick"
    /\ UNCHANGED <<primary, err, sku_summary, sku_rules, session>>

\* Lines 692-696.
Pick ==
    /\ pc = "pick"
    /\ \E x \in SkuOptions(sku_rules.rows) : tab5' = [tab5 EXCEPT !.sku_pick = x]
    /\ pc' = "drill"
    /\ UNCHANGED <<primary, err, sku_summary, sku_rules, session>>

\* Lines 697-699: the drill-down reads rr, the thresholded table.
Drill ==
    /\ pc = "drill"
    /\ tab5' = [tab5 EXCEPT !.rel = drill_down(tab5.rr, tab5.sku_pick)]
    /\ pc' = "tab6"
    /\ UNCHANGED <<primary, err, sku_summary, sku_rules, session>>


\* The load of the primary table.  The source reads df from line 274 on and
\* binds it nowhere (a run of the file as it stands ends at line 274 with a
\* NameError); the statement that binds it is taken from the specification:
\* the Dataset Loader reads monthly_aggregates.csv once, through the memoised
\* load, and every run reads the table from there.
Load ==
    /\ pc = "load"
    /\ df' = read_csv_cached(memo, disk, "df")
    /\ memo' = Memoised(memo, disk, "df")
    /\ pc' = "normalise"
    /\ UNCHANGED <<year_months, flt, f, todo, g, kpi, tab1, tab2, tab3, err, basket,
                   disk, run, hist, optional, tab4, tab6>>

\* Lines 523-529: the seven optional tables, one load after the other.
LoadOptional ==
    /\ pc = "optional"
    /\ rfm_df' = load_optional(memo, disk, "rfm_df")
    /\ rfm_targets' = load_optional(memo, disk, "rfm_targets")
    /\ sku_summary' = load_optional(memo, disk, "sku_summary")
    /\ sku_rules' = load_optional(memo, disk, "sku_rules")
    /\ missing_profile' = load_optional(memo, disk, "missing_profile")
    /\ outlier_key' = load_optional(memo, disk, "outlier_key")
    /\ audit_top_orders' = load_optional(memo, disk, "audit_top_orders")
    /\ memo' = [n \in FileNames |->
                  IF n \in OptionalNames /\ disk[n] # None
                  THEN Memoised(memo, disk, n)[n] ELSE memo[n]]
    /\ pc' = "tab4"
    /\ UNCHANGED <<primary, err, tab5, disk, run, hist, tab4, tab6>>

\* Lines 532-639: the warning when rfm_customer_table.csv is missing, and
\* with it no target list; else the widgets, rf, the metrics and the charts.
Tab4 ==
    /\ pc = "tab4"
    /\ IF rfm_df = None
       THEN tab4' = [NoTab4 EXCEPT !.notices = {"rfm_df"}]
       ELSE \E seg_sel \in SUBSET Options(rfm_df, "RFM_Segment"),
               clu_sel \in SUBSET Options(rfm_df, "kmeans_cluster"),
               rec_rng \in RecencyRanges(rfm_df) :
               LET rf == rfm_filter(rfm_df, seg_sel, clu_sel, rec_rng)
               IN  \E ss \in (IF {"RFM_Segment", "monetary", "Customer_ID"} \subseteq rf.cols
                              THEN {Shown(x) : x \in SortValuesDesc(SegSum(rf), "monetary")}
                              ELSE {Skipped}) :
                      tab4' = [notices |-> {}, seg_sel |-> seg_sel, clu_sel |-> clu_sel,
                               rec_rng |-> rec_rng, rf |-> rf, metrics |-> RfmMetrics(rf),
                               seg_sum |-> ss,
                               seg_cluster |->
                                  IF {"RFM_Segment", "kmeans_cluster", "Customer_ID"} \subseteq rf.cols
                                  THEN "chart" ELSE "info",
                               scatter |-> {"recency_days", "monetary"} \subseteq rf.cols
                                           /\ Len(rf.rows) > 0,
                               target_list |-> IF rfm_targets # None
                                               THEN Shown(head(rfm_targets.rows, TargetLimit))
                                               ELSE Skipped]
    /\ pc' = "tab5"
    /\ UNCHANGED <<primary, err, basket, files, optional, tab6>>

\* Lines 702-719: each of the three views is there when its table is, with
\* the columns it needs; else nothing is shown in its place.
Tab6 ==
    /\ pc = "tab6"
    /\ \E tm \in (IF missing_profile # None
                  THEN IF {"column_name", "missing_pct"} \subseteq missing_profile.cols
                       THEN {Shown(head(x, TopMissing)) : x \in SortRowsDesc(missing_profile.rows, "missing_pct")}
                       ELSE {Skipped}
                  ELSE {Skipped}),
          ou \in (IF outlier_key # None
                  THEN IF {"column", "pct_outliers_iqr"} \subseteq outlier_key.cols
                       THEN {Shown(x) : x \in SortRowsDesc(outlier_key.rows, "pct_outliers_iqr")}
                       ELSE {Skipped}
                  ELSE {Skipped}) :
          tab6' = [notices |-> {}, top_m |-> tm, out |-> ou,
                   audit |-> IF audit_top_orders # None
                             THEN Shown(head(audit_top_orders.rows, AuditLimit)) ELSE Skipped]
    /\ pc' = "done"
    /\ UNCHANGED <<primary, err, basket, files, optional, tab4>>

\* What a finished run has shown.
Shot ==
    [flt |-> flt, f |-> f, kpi |-> kpi, min_support |-> tab5.min_support,
     min_conf |-> tab5.min_conf, min_lift |-> tab5.min_lift, sku_pick |-> tab5.sku_pick,
     rr |-> tab5.rr, rel |-> tab5.rel]

\* A widget changes and Streamlit runs the script again from its first line.
\* The memoised loads and the files stay; every name of the script is bound
\* anew by the run.
Rerun ==
    /\ pc = "done"
    /\ run < MaxRuns
    /\ run' = run + 1
    /\ hist' = Append(hist, Shot)
    /\ pc' = "load"
    /\ UNCHANGED <<primary, err, basket, disk, memo, optional, tab4, tab6>>

\* --------------------------------------------------------- specifications
NoTable == [cols |-> {}, rows |-> <<>>]

\* The column sets of the primary tables: a few of the columns cs.
ColumnSets(cs, k) == {c \in SUBSET cs : Cardinality(c) <= k}

\* The first run of a session, before the optional tables are loaded.
NoOptional ==
    /\ run = 1
    /\ hist = <<>>
    /\ rfm_df = None
    /\ rfm_targets = None
    /\ missing_profile = None
    /\ outlier_key = None
    /\ audit_top_orders = None
    /\ tab4 = NoTab4
    /\ tab6 = NoTab6

InitCommon ==
    /\ pc = "normalise"
    /\ year_months = None
    /\ flt = None
    /\ f = None
    /\ todo = {}
    /\ g = None
    /\ kpi = None
    /\ tab1 = None
    /\ tab2 = None
    /\ tab3 = None
    /\ err = ""
    /\ sku_summary = NoTable
    /\ sku_rules = NoTable
    /\ tab5 = NoTab5
    /\ NoOptional

\* df is the table of monthly_aggregates.csv, loaded and memoised as the
\* specification has it (see Load).
PrimaryLoaded ==
    /\ disk = [NoFiles EXCEPT !["df"] = df]
    /\ memo = disk

\* The filter stage: the primary table has some of the filter columns, with
\* or without YearMonth.
InitFilter ==
    /\ InitCommon
    /\ \E cs \in ColumnSets(FilterCols \ {"YearMonth"}, MaxFilterCols), ym \in SUBSET {"YearMonth"} :
          df \in Tables(cs \cup ym, Domains)
    /\ PrimaryLoaded

NextFilter == Normalise \/ CheckYearMonth \/ Sidebar \/ Filter

SpecFilter == InitFilter /\ [][NextFilter]_vars

\* The filter stage followed by the evaluation of the predicates in any order.
\* The table has YearMonth and one of the filter columns, or a few of the
\* columns OrderCols: the loop of lines 322-323 runs the same statement for
\* Company, Brands, shop and shipping_country.
OrderCols == {"Company", "Brands", "campaign_type_clean", "has_coupon"}

InitOrder ==
    /\ InitCommon
    /\ \E cs \in ColumnSets(OrderCols, MaxFilterCols) \cup {{c} : c \in FilterCols \ {"YearMonth"}} :
          df \in Tables(cs \cup {"YearMonth"}, LeanDomains)
    /\ PrimaryLoaded

NextOrder == NextFilter \/ StartAnyOrder \/ ApplyAny

SpecOrder == InitOrder /\ [][NextOrder]_vars

\* The run over the primary table, through its first three tabs.  The table
\* has YearMonth and a few of the KPI columns, or the two columns every tab
\* aggregates and one more column.
KpiCols == {"orders", "net_revenue_gbp", "refund_gbp", "order_total_gbp", "has_coupon"}
CoreCols == {"YearMonth", "orders", "net_revenue_gbp"}
PromoCols == CoreCols \cup {"has_coupon", "avg_discount_rate"}
CampaignCols == CoreCols \cup {"has_coupon", "campaign_type_clean"}
CampaignDomains ==
    [month |-> {Val(1)}, category |-> {Val("a")},
     campaign |-> {Val("promo"), Val("no coupon")}, flag |-> {Val(TRUE), Val(FALSE)},
     measure |-> {Val(1)}]

InitRun ==
    /\ InitCommon
    /\ \/ \E cs \in ColumnSets(KpiCols, MaxKpiCols) :
             df \in Tables(cs \cup {"YearMonth"}, [Domains EXCEPT !.month = Months])
       \/ \E c \in AllCols \ CoreCols : df \in Tables(CoreCols \cup {c}, LeanDomains)
       \/ df \in Tables(PromoCols, LeanDomains)
       \/ df \in Tables(CampaignCols, CampaignDomains)
    /\ PrimaryLoaded

NextRun == NextFilter \/ Kpi \/ Tab1 \/ Tab2 \/ Tab3 \/ Tab3Charts

Spec == InitRun /\ [][NextRun]_vars

\* The Products & Basket tab, after a run of the first tabs over a table of
\* one row and of Tab 4 without rfm_customer_table.csv, which has shown the
\* warning of line 536.  Either the SKU summary varies or the rule table does.
BaseDf ==
    [cols |-> CoreCols,
     rows |-> <<[c \in AllCols |-> IF c \in CoreCols THEN Val(1) ELSE Missing]>>]

RuleRows ==
    [antecedent : 1..MaxSku, consequent : 1..MaxSku, support : 1..MaxSupport,
     confidence : {DefaultConf, ConfSteps}, lift : {DefaultLift, DefaultLift + 1},
     pair_order_count : {ConfSteps}]

RuleTables ==
    {[cols |-> cs, rows |-> rs] :
        cs \in {RuleCols, RuleCols \ {"lift"}},
        rs \in UNION {[1..n -> RuleRows] : n \in 1..MaxRules}}

SummaryRows == [sku : 1..MaxSku, revenue_alloc_gbp : 1..MaxSupport]

SummaryTables ==
    {[cols |-> cs, rows |-> rs] :
        cs \in {{"sku", "revenue_alloc_gbp"}, {"sku"}},
        rs \in UNION {[1..n -> SummaryRows] : n \in 0..MaxRules}}

OneRule == [antecedent |-> 1, consequent |-> MaxSku, support |-> 1, confidence |-> DefaultConf,
            lift |-> DefaultLift, pair_order_count |-> ConfSteps]

\* The state that the first three tabs leave for the table BaseDf.
AfterBaseRun ==
    /\ df = BaseDf
    /\ year_months = YearMonths(df)
    /\ flt = [ym_from |-> 1, ym_to |-> 1, company |-> {}, brand |-> {}, shop |-> {},
              country |-> {}, campaign |-> {}, has_coupon |-> "All"]
    /\ f = apply_filters(df, flt)
    /\ todo = {}
    /\ g = None
    /\ kpi = Kpis(f)
    /\ tab1 = [by_ym |-> by_ym(f), top_brand |-> Skipped, top_country |-> Skipped]
    /\ tab2 = [pivot |-> Skipped, by_campaign |-> Skipped, by_ym2 |-> Skipped]
    /\ tab3 = [net_coupon |-> NaN, net_nocoupon |-> NaN, wdisc |-> NaN,
               top_campaign |-> Skipped, usage |-> Skipped]
    /\ err = ""

InitBasket ==
    /\ pc = "tab5"
    /\ AfterBaseRun
    /\ tab5 = NoTab5
    /\ \/ sku_summary \in SummaryTables /\ sku_rules = [cols |-> RuleCols, rows |-> <<OneRule>>]
       \/ sku_summary = [cols |-> {"sku", "revenue_alloc_gbp"}, rows |-> <<>>]
          /\ sku_rules \in RuleTables
    /\ run = 1
    /\ hist = <<>>
    /\ rfm_df = None
    /\ rfm_targets = None
    /\ missing_profile = None
    /\ outlier_key = None
    /\ audit_top_orders = None
    /\ tab4 = [NoTab4 EXCEPT !.notices = {"rfm_df"}]
    /\ tab6 = NoTab6
    /\ disk = [NoFiles EXCEPT !["df"] = df, !["sku_summary"] = sku_summary,
                              !["sku_rules"] = sku_rules]
    /\ memo = disk

NextBasket == TopSkus \/ Sliders \/ Threshold \/ Pick \/ Drill

SpecBasket == InitBasket /\ [][NextBasket]_vars

\* ------------------------------------------------ the optional tables
\* The tables of the optional files that the model loads.
OneRfmTable ==
    [cols |-> RfmCols,
     rows |-> <<[Customer_ID |-> Val(1), RFM_Segment |-> Val("a"), kmeans_cluster |-> Val(0),
                 recency_days |-> Val(1), monetary |-> Val(1), frequency |-> Val(1)],
                [Customer_ID |-> Val(2), RFM_Segment |-> Val("b"), kmeans_cluster |-> Val(0),
                 recency_days |-> Val(2), monetary |-> Missing, frequency |-> Val(1)]>>]
OneTargetList == [cols |-> {"Customer_ID"}, rows |-> <<[Customer_ID |-> Val(1)]>>]
OneSummary ==
    [cols |-> {"sku", "revenue_alloc_gbp"},
     rows |-> <<[sku |-> 1, revenue_alloc_gbp |-> 1], [sku |-> MaxSku, revenue_alloc_gbp |-> MaxSupport]>>]
OneMissingProfile ==
    [cols |-> {"column_name", "missing_pct"}, rows |-> <<[column_name |-> 1, missing_pct |-> 1]>>]
OneOutlierKey ==
    [cols |-> {"column", "pct_outliers_iqr"}, rows |-> <<[column |-> 1, pct_outliers_iqr |-> 1]>>]
OneAudit == [cols |-> {"order_total_gbp"}, rows |-> <<[order_total_gbp |-> 1]>>]

\* A table without the columns that are not in cols.
Mask(cols, all, rows) ==
    [cols |-> cols,
     rows |-> [i \in 1..Len(rows) |-> [c \in all |-> IF c \in cols THEN rows[i][c] ELSE Missing]]]

\* RFM tables of two or three customers rows, with and without the columns
\* that Tab 4 tests for.  recency_days holds two values when it is there.
RfmTables ==
    {Mask(cs, RfmCols,
          <<OneRfmTable.rows[1],
            [OneRfmTable.rows[2] EXCEPT !.Customer_ID = Val(c), !.RFM_Segment = sg, !.monetary = m]>>
          \o extra) :
        cs \in {RfmCols, RfmCols \ {"recency_days"}, RfmCols \ {"Customer_ID"}, {"monetary"}},
        c \in 1..2, sg \in {Val("a"), Val("b"), Missing}, m \in {Missing, Val(1), Val(2)},
        extra \in {<<>>, <<[OneRfmTable.rows[1] EXCEPT !.recency_days = Missing]>>}}

\* Rule tables of the six columns whose lifts lie below, at and above the
\* default of the lift slider.
LiftValues == {1, DefaultLift - 1, DefaultLift, DefaultLift + 1}
AnyLiftRules ==
    {[cols |-> RuleCols, rows |-> rs] :
        rs \in UNION {[1..n -> {[OneRule EXCEPT !.support = sp, !.lift = l] :
                                   sp \in 1..MaxSupport, l \in LiftValues}] : n \in 1..MaxRules}}

OneRules == [cols |-> RuleCols, rows |-> <<OneRule>>]

\* The files of a folder in which each optional file is there or is not.
Folders ==
    {[n \in FileNames |-> IF n \in here THEN d[n] ELSE None] :
        here \in SUBSET OptionalNames,
        d \in {[df |-> BaseDf, rfm_df |-> OneRfmTable, rfm_targets |-> OneTargetList,
                sku_summary |-> OneSummary, sku_rules |-> OneRules,
                missing_profile |-> OneMissingProfile, outlier_key |-> OneOutlierKey,
                audit_top_orders |-> OneAudit]}}

\* The optional tables and the last three tabs, after a run of the first
\* tabs over BaseDf.
InitOptional ==
    /\ pc = "optional"
    /\ AfterBaseRun
    /\ sku_summary = None
    /\ sku_rules = None
    /\ tab5 = NoTab5
    /\ NoOptional
    /\ \/ \E d \in Folders : disk = [d EXCEPT !["df"] = df]
       \/ \E t \in RfmTables : disk = [NoFiles EXCEPT !["df"] = df, !["rfm_df"] = t]
       \/ \E t \in AnyLiftRules :
             disk = [NoFiles EXCEPT !["df"] = df, !["sku_summary"] = OneSummary, !["sku_rules"] = t]
    /\ memo = [NoFiles EXCEPT !["df"] = df]

NextOptional ==
    LoadOptional \/ Tab4 \/ TopSkus \/ Sliders \/ Threshold \/ Pick \/ Drill \/ Tab6

SpecOptional == InitOptional /\ [][NextOptional]_vars

\* A session: the script runs, a widget changes, the script runs again.
\* The primary table has a campaign column to normalise and no optional
\* file, or is BaseDf next to a rule file that may be replaced between runs.
SessionDomains ==
    [month |-> Months, category |-> {Val("a")},
     campaign |-> {Val(" promo"), Val("no coupon")}, flag |-> {Val(TRUE)}, measure |-> {Val(1)}]
SessionCols == CoreCols \cup {"campaign_type_clean"}

TwoRules ==
    [cols |-> RuleCols, rows |-> <<OneRule, [OneRule EXCEPT !.support = MaxSupport]>>]
OtherRules == {OneRules, TwoRules}

\* Between two runs the rule file is replaced by another one.
ChangeFile ==
    /\ pc = "done"
    /\ run < MaxRuns
    /\ \E t \in OtherRules : t # disk["sku_rules"] /\ disk' = [disk EXCEPT !["sku_rules"] = t]
    /\ UNCHANGED <<pc, primary, err, basket, memo, run, hist, optional, tab4, tab6>>


InitSession ==
    /\ pc = "load"
    /\ df = None
    /\ year_months = None
    /\ flt = None
    /\ f = None
    /\ todo = {}
    /\ g = None
    /\ kpi = None
    /\ tab1 = None
    /\ tab2 = None
    /\ tab3 = None
    /\ err = ""
    /\ sku_summary = None
    /\ sku_rules = None
    /\ tab5 = NoTab5
    /\ NoOptional
    /\ \/ \E t \in Tables(SessionCols, SessionDomains) :
             t.rows # <<>> /\ disk = [NoFiles EXCEPT !["df"] = t]
       \/ \E t \in OtherRules :
             disk = [NoFiles EXCEPT !["df"] = BaseDf, !["sku_summary"] = OneSummary,
                                    !["sku_rules"] = t]
    /\ memo = NoFiles

NextSession ==
    \/ Load \/ NextRun \/ NextOptional \/ Rerun \/ ChangeFile

SpecSession == InitSession /\ [][NextSession]_vars

\* ------------------------------------------------------------------ claims
WithoutPredicate(p) == SelectSeq(Predicates, LAMBDA q : q # p)

\* The predicates applied so far, in the order of the script.
Applied == SelectSeq(Predicates, LAMBDA p : p \notin todo)

\* C1: once every predicate of the filter specification has been applied to
\* df, one at a time and in whatever order, the rows that remain are the rows
\* of f, which the script computes in its own order (range, the categorical
\* columns in list order, has_coupon); and on the way there, the predicates
\* applied so far leave the rows they leave in the order of the script.
C1_OrderIndependent ==
    pc = "anyorder" =>
       /\ g = ApplyInOrder(Applied, df, flt)
       /\ todo = {} => g = f

\* Two rows, one of them removed, with a categorical selection and a coupon
\* choice both in force.
C1_Witness ==
    /\ pc = "anyorder" /\ todo = {}
    /\ Len(df.rows) = 2 /\ Len(f.rows) = 1
    /\ flt.has_coupon # "All" /\ "has_coupon" \in df.cols
    /\ \E i \in 1..Len(CategoricalCols) :
          Sel(flt, CategoricalCols[i]) # {} /\ CategoricalCols[i] \in df.cols

\* C2: after the filter has run, for every categorical column whose selection
\* is empty the filtered table is the one the pipeline yields without that
\* column's predicate, and the same for has_coupon when the choice is "All".
C2_EmptySelectionPassThrough ==
    pc = "kpi" =>
       /\ \A i \in 1..Len(CategoricalCols) :
             Sel(flt, CategoricalCols[i]) = {} =>
                f = ApplyInOrder(WithoutPredicate(CategoricalCols[i]), df, flt)
       /\ flt.has_coupon = "All" => f = ApplyInOrder(WithoutPredicate("has_coupon"), df, flt)

\* A row whose Company is missing is kept under an empty Company selection.
C2_Witness ==
    /\ pc = "kpi"
    /\ "Company" \in df.cols /\ flt.company = {}
    /\ \E i \in 1..Len(f.rows) : f.rows[i].Company = Missing
    /\ \E i \in 1..Len(df.rows) : notna(df.rows[i].Company)

HasYearMonth(t) == "YearMonth" \in t.cols /\ \E i \in 1..Len(t.rows) : notna(t.rows[i].YearMonth)

C6_Gate ==
    /\ pc = "stopped" => (~HasYearMonth(df) /\ flt = None /\ f = None)
    /\ pc \in {"sidebar", "filter", "kpi"} => HasYearMonth(df)
    /\ pc \in {"filter", "kpi"} =>
          /\ flt.ym_from \in Unique(df, "YearMonth")
          /\ flt.ym_to \in Unique(df, "YearMonth")
          /\ flt.ym_from <= flt.ym_to

\* C6: a primary table without a YearMonth value stops the run before any
\* widget is read or any filter applied, and the stopped run computes nothing
\* afterwards; a run that goes on has a YearMonth value, and its range bounds
\* are values of the table with ym_from <= ym_to.
C6_YearMonthGate == [](C6_Gate) /\ [][pc = "stopped" => UNCHANGED vars]_vars

\* The column is there and every value of it is missing.
C6_Witness == pc = "stopped" /\ "YearMonth" \in df.cols /\ Len(df.rows) = MaxRows

\* The sections of the run that have computed kpi, tab1, tab2 and the metrics
\* of tab3.
KpiDone == pc \in {"tab1", "tab2", "tab3", "tab3_charts", "optional", "error"}
Tab1Done == pc \in {"tab2", "tab3", "tab3_charts", "optional"} \/ (pc = "error" /\ tab1 # None)
Tab2Done == pc \in {"tab3", "tab3_charts", "optional"} \/ (pc = "error" /\ tab2 # None)
Tab3Done == pc \in {"tab3_charts", "optional"} \/ (pc = "error" /\ tab3 # None)

Present(col) == col \in f.cols
Total(col) == nansum(CellsOf(f.rows, col))

\* C3 as stated: each ratio KPI is undefined exactly when the total of its
\* denominator is zero or absent, and a defined number otherwise, also when
\* the numerator column is absent.
C3_UndefinedIffDenominator ==
    KpiDone =>
       /\ isnan(kpi.aov) <=> (~Present("orders") \/ Total("orders") = 0)
       /\ isnan(kpi.refund_rate) <=> (~Present("order_total_gbp") \/ Total("order_total_gbp") = 0)
       /\ isnan(kpi.coupon_usage) <=> (~Present("orders") \/ Total("orders") = 0)

\* C3, amended: each ratio KPI is undefined exactly when the total of its
\* denominator is zero or absent or its numerator column is absent; it is
\* then never zero, and in every other case it is the quotient of the two
\* totals (zero when the numerator sums to zero).
C3_UndefinedIffDenominatorOrNumerator ==
    KpiDone =>
       /\ isnan(kpi.aov) <=>
             (~Present("orders") \/ Total("orders") = 0 \/ ~Present("net_revenue_gbp"))
       /\ isnan(kpi.refund_rate) <=>
             (~Present("order_total_gbp") \/ Total("order_total_gbp") = 0 \/ ~Present("refund_gbp"))
       /\ isnan(kpi.coupon_usage) <=> (~Present("orders") \/ Total("orders") = 0)
       /\ ~isnan(kpi.aov) => kpi.aov[1] * Total("orders") = Total("net_revenue_gbp") * kpi.aov[2]
       /\ ~isnan(kpi.refund_rate) =>
             kpi.refund_rate[1] * Total("order_total_gbp") = Total("refund_gbp") * kpi.refund_rate[2]

\* Rows are left, the orders column is there and sums to zero, and the
\* numerator does not: the ratio is undefined.
C3_Witness ==
    /\ KpiDone /\ f.rows # <<>>
    /\ Present("orders") /\ Present("net_revenue_gbp")
    /\ Total("orders") = 0 /\ Total("net_revenue_gbp") # 0
    /\ isnan(kpi.aov)

\* C4: once the filters have left no row of a table that has rows, no
\* exception is raised, and every derived KPI is the undefined sentinel: net
\* revenue, orders, AOV, refund, refund rate and coupon usage when the KPIs
\* are computed, coupon and no-coupon net revenue and the average discount
\* rate when the Promotions metrics are.
C4_AllUndefinedOnEmpty ==
    (f # None /\ f.rows = <<>> /\ df.rows # <<>>) =>
       /\ pc # "error"
       /\ KpiDone =>
             /\ isnan(kpi.net_rev) /\ isnan(Float(kpi.orders)) /\ isnan(kpi.aov)
             /\ isnan(kpi.refund) /\ isnan(kpi.refund_rate) /\ isnan(kpi.coupon_usage)
       /\ Tab3Done =>
             /\ isnan(tab3.net_coupon) /\ isnan(tab3.net_nocoupon) /\ isnan(tab3.wdisc)

\* C5: with a YearMonth value in the table, no run ends in an error for a
\* column that the table does not have.
C5_MissingColumnNeverFatal == ~(pc = "error" /\ err = ColumnKeyError)

\* The values of a group of f, and the two halves of the claim for one
\* aggregated value x: "no value" when the group has no value of the column,
\* for a mean else the mean of the values that are not missing.
AllMissing(by, k, col) == Count(GroupCells(f, by, k, col)) = 0
NoValueIfAllMissing(x, by, k, col) == AllMissing(by, k, col) => isnan(x)
MeanOfPresent(x, by, k, col) ==
    IF AllMissing(by, k, col) THEN isnan(x)
    ELSE ~isnan(x) /\ x[1] * Count(GroupCells(f, by, k, col)) = nansum(GroupCells(f, by, k, col)) * x[2]
SumsByKey(view, by, col) ==
    view.shown => \A i \in 1..Len(view.rows) :
                     NoValueIfAllMissing(view.rows[i].net_revenue, by, view.rows[i].key, col)

\* C9: in every grouped aggregation of the first tabs (by month, brand,
\* country, shop, campaign type), a sum or a mean over a group whose values
\* of the measured column are all missing is the "no value" marker, never 0,
\* and a mean over a group with a value is the mean of the values that are
\* not missing.
C9_AllMissingGroupIsNoValue ==
    /\ Tab1Done =>
          /\ \A i \in 1..Len(tab1.by_ym) :
                /\ NoValueIfAllMissing(tab1.by_ym[i].net_revenue, "YearMonth",
                                       tab1.by_ym[i].YearMonth, "net_revenue_gbp")
                /\ NoValueIfAllMissing(tab1.by_ym[i].orders, "YearMonth",
                                       tab1.by_ym[i].YearMonth, "orders")
          /\ SumsByKey(tab1.top_brand, "Brands", "net_revenue_gbp")
          /\ SumsByKey(tab1.top_country, "shipping_country", "net_revenue_gbp")
    /\ Tab2Done =>
          /\ SumsByKey(tab2.pivot, "shop", "net_revenue_gbp")
          /\ SumsByKey(tab2.by_campaign, "campaign_type_clean", "net_revenue_gbp")
          /\ tab2.by_ym2.shown =>
                \A i \in 1..Len(tab2.by_ym2.rows) :
                   MeanOfPresent(tab2.by_ym2.rows[i].refund_rate, "YearMonth",
                                 tab2.by_ym2.rows[i].YearMonth, "refund_rate")

Tab5TopDone == pc \in {"sliders", "threshold", "pick", "drill", "tab6"}
RulesDone == pc \in {"pick", "drill"} \/ (pc = "tab6" /\ RuleCols \subseteq sku_rules.cols)
DrillDone == pc = "tab6" /\ RuleCols \subseteq sku_rules.cols

\* The rows of the loaded rule table that meet the three thresholds.
Kept == {i \in 1..Len(sku_rules.rows) :
            /\ FloatGE(Float(sku_rules.rows[i].support), tab5.min_support)
            /\ FloatGE(Float(sku_rules.rows[i].confidence), tab5.min_conf)
            /\ FloatGE(Float(sku_rules.rows[i].lift), tab5.min_lift)}

\* C7: rr holds exactly the rows of the rule table whose support, confidence
\* and lift are each at least the threshold (bounds inclusive), in the order
\* of the rule table; with the three thresholds at 0 it is the rule table.
C7_ThresholdedRules ==
    RulesDone =>
       /\ Len(tab5.rr) = Cardinality(Kept)
       /\ \A k \in 1..Len(tab5.rr) : tab5.rr[k] = sku_rules.rows[SortedSeq(Kept)[k]]
       /\ (tab5.min_support = Float(0) /\ tab5.min_conf = Float(0) /\ tab5.min_lift = Float(0))
             => tab5.rr = sku_rules.rows

\* A rule whose lift equals the lift threshold is kept and another rule is
\* removed.
C7_Witness ==
    /\ RulesDone
    /\ Len(sku_rules.rows) = 2 /\ Len(tab5.rr) = 1
    /\ Float(tab5.rr[1].lift) = tab5.min_lift
    /\ Float(tab5.rr[1].support) = tab5.min_support

\* C8: the drill-down for x shows the rules of the loaded, unfiltered rule
\* table whose antecedent or consequent is x, in descending order of lift,
\* then confidence, then support, cut to 50 rows.
C8_DrillDownOnUnfilteredRules ==
    DrillDone => tab5.rel = drill_down(sku_rules.rows, tab5.sku_pick)

\* C10: a top-N table is in descending order of its measure, rows of equal
\* measure in ascending order of their key, and holds at most N rows.
C10_TiesByKeyAscending ==
    (Tab5TopDone /\ tab5.top_skus.shown) =>
       /\ Len(tab5.top_skus.rows) <= tab5.topn
       /\ \A i, j \in 1..Len(tab5.top_skus.rows) :
             i < j =>
                \/ tab5.top_skus.rows[i].revenue_alloc_gbp > tab5.top_skus.rows[j].revenue_alloc_gbp
                \/ /\ tab5.top_skus.rows[i].revenue_alloc_gbp = tab5.top_skus.rows[j].revenue_alloc_gbp
                   /\ tab5.top_skus.rows[i].sku <= tab5.top_skus.rows[j].sku

\* ------------------------------------------------------ optional tables
HasCols(t, cols) == t # None /\ cols \subseteq t.cols

\* C11: at the end of a run, every optional file that is missing is reported
\* as unavailable in the tab of its views, no error was raised, and every
\* view whose own table is there (with the columns it needs) is shown.
C11_MissingOptionalDataset ==
    pc = "done" =>
       /\ err = ""
       /\ rfm_df = None => "rfm_df" \in tab4.notices
       /\ rfm_targets = None => "rfm_targets" \in tab4.notices
       /\ sku_summary = None => "sku_summary" \in tab5.notices
       /\ sku_rules = None => "sku_rules" \in tab5.notices
       /\ missing_profile = None => "missing_profile" \in tab6.notices
       /\ outlier_key = None => "outlier_key" \in tab6.notices
       /\ audit_top_orders = None => "audit_top_orders" \in tab6.notices
       /\ rfm_df # None => tab4.metrics # None
       /\ rfm_targets # None => tab4.target_list.shown
       /\ HasCols(sku_summary, {"sku", "revenue_alloc_gbp"}) => tab5.top_skus.shown
       /\ HasCols(sku_rules, RuleCols) => tab5.sliders # None
       /\ HasCols(missing_profile, {"column_name", "missing_pct"}) => tab6.top_m.shown
       /\ HasCols(outlier_key, {"column", "pct_outliers_iqr"}) => tab6.out.shown
       /\ audit_top_orders # None => tab6.audit.shown

\* ---------------------------------------------------------------- session
RulesShown == tab5.sliders # None /\ pc = "done"
OnDisk(n, cols) == HasCols(disk[n], cols)

\* C12: at the end of a run that began after the last change of the rule
\* file, the value that the support slider starts from is the median of the
\* support values of the table in the file.
C12_DefaultIsMedianOfNewTable ==
    (RulesShown /\ run = MaxRuns /\ OnDisk("sku_rules", RuleCols)) =>
       tab5.sliders.support.value = Median(disk["sku_rules"].rows, "support")

\* The tables of the files, as the variables of the script hold them.
BaseTables == <<df, rfm_df, rfm_targets, sku_summary, sku_rules, missing_profile,
                outlier_key, audit_top_orders>>

\* C13 as stated: no step of a run other than the loads changes a loaded
\* table, the campaign-type normalisation included.
C13_NeverMutated ==
    [][pc \notin {"load", "optional"} => UNCHANGED BaseTables]_vars

\* C13, amended: the normalisation rewrites the campaign_type_clean column of
\* df in place, and leaves the other columns, the set of columns and the
\* number of rows of df as they are; no other step of a run but the loads
\* changes a loaded table.
C13_MutatedByNormalisationOnly ==
    [][/\ pc \notin {"load", "optional", "normalise"} => UNCHANGED BaseTables
       /\ pc = "normalise" =>
             /\ UNCHANGED <<rfm_df, rfm_targets, sku_summary, sku_rules, missing_profile,
                            outlier_key, audit_top_orders>>
             /\ df'.cols = df.cols
             /\ Len(df'.rows) = Len(df.rows)
             /\ \A i \in 1..Len(df.rows) : \A c \in AllCols \ {"campaign_type_clean"} :
                   df'.rows[i][c] = df.rows[i][c]]_vars

\* The normalisation has rewritten a cell of df ("no coupon" of the file is
\* "No campaign" in df), the filter has removed a row into f, and df holds
\* every row still.
C13_Witness ==
    /\ pc = "done"
    /\ \E i \in 1..Len(df.rows) : df.rows[i].campaign_type_clean = Val("No campaign")
    /\ Len(df.rows) = MaxRows
    /\ Len(f.rows) < Len(df.rows)

\* C14: at the end of every run of a session, the filtered table, the KPIs
\* and the rule views are those of the memoised base tables under the widget
\* values of this run, whatever the runs before have shown; and a run before
\* with the same widget values has shown the same.
C14_RecomputedFromBase ==
    pc = "done" =>
       /\ f = ApplyInOrder(Predicates, CleanCampaign(memo["df"]), flt)
       /\ kpi = Kpis(ApplyInOrder(Predicates, CleanCampaign(memo["df"]), flt))
       /\ tab5.sliders # None =>
             /\ tab5.rr = threshold_rules(memo["sku_rules"].rows, tab5.min_support,
                                          tab5.min_conf, tab5.min_lift)
             /\ tab5.rel = drill_down(threshold_rules(memo["sku_rules"].rows, tab5.min_support,
                                                      tab5.min_conf, tab5.min_lift),
                                      tab5.sku_pick)
       /\ \A i \in 1..Len(hist) :
             hist[i].flt = flt =>
                /\ hist[i].f = f /\ hist[i].kpi = kpi
                /\ (/\ hist[i].min_support = tab5.min_support
                    /\ hist[i].min_conf = tab5.min_conf
                    /\ hist[i].min_lift = tab5.min_lift
                    /\ hist[i].sku_pick = tab5.sku_pick)
                      => hist[i].rr = tab5.rr /\ hist[i].rel = tab5.rel

\* A second run whose filter specification keeps rows that the first run
\* has removed.
C14_Witness ==
    /\ pc = "done" /\ run = 2
    /\ hist[1].flt # flt
    /\ Len(hist[1].f.rows) < Len(f.rows)
    /\ Len(f.rows) = MaxRows

\* C15: the value that each of the three sliders starts from lies within the
\* range of the slider, and no slider ends the run in an error.
C15_DefaultsInRange ==
    tab5.sliders # None =>
       /\ InBounds(tab5.sliders.support)
       /\ InBounds(tab5.sliders.conf)
       /\ InBounds(tab5.sliders.lift)
       /\ err # SliderError

====
